---- MODULE Spec2Model ----
(***************************************************************************)
(* Library Management System: the console front end (main.py, class        *)
(* Library and its menu loop) and the Streamlit front end (stream.py),     *)
(* both working on the one file library.json.                              *)
(*                                                                         *)
(* A python dict is a TLA+ record whose DOMAIN is its key set, so that the *)
(* two spellings of a member's list of loans ("borowed" in main.py,        *)
(* "borrowed" in stream.py) are different keys, as in the code.            *)
(* Free-text fields (title, author, name, email) and the timestamps do not *)
(* decide any branch of the code and are left out of the records.          *)
(* The web front end's copy-count editor (stream.py 126-145) is not part   *)
(* of the model: the properties below are about the runs that never use it.*)
(* The pages and menu entries that only display (list_books, Dashboard,    *)
(* List Books, List Members) change nothing and are left out, but for      *)
(* list_members of main.py, which reads the "borowed" key.                 *)
(*                                                                         *)
(* The console process loads the file once, when it starts, and works on   *)
(* Library.data from then on. Streamlit runs stream.py from the top on     *)
(* every interaction, so the web front end holds nothing between two       *)
(* interactions: each of its steps is one script run, which loads the      *)
(* file (line 48), runs the handler of the button pressed and saves.       *)
(***************************************************************************)
EXTENDS Integers, Sequences, FiniteSets, TLC

VARIABLES file,      \* library.json: absent, empty, unparsable or a JSON text
          conPc,     \* console process: "off", "menu" or "crashed"
          conData,   \* Library.data of the console process
          lastSave,  \* the operation that called save_data last, and its inputs
          prevSave,  \* the operation that called save_data before that one
          nSaves     \* how many times an operation has called save_data

vars == <<file, conPc, conData, lastSave, prevSave, nSaves>>

----------------------------------------------------------------------------
(* Bounds of the model *)
MaxBooks == 2
MaxMembers == 2
MaxBorrowed == 2
MaxCopies == 1
NumIds == 2
MaxSaves == 4

(* gen_id draws 5 characters at random and never looks at the ids in use:  *)
(* any id of the space may come out, one already taken included.           *)
GenIds == 1 .. NumIds
(* what a user can type for an id: a generated one, or one nobody has *)
TypedIds == 0 .. NumIds
(* what a console user can type for the copy count, when it is a number *)
TypedCopies == -1 .. MaxCopies
(* what st.number_input(min_value=1) lets through *)
FormCopies == 1 .. MaxCopies
(* what a console user can type for the loan to return, when a number *)
TypedChoices == -(MaxBorrowed + 1) .. (MaxBorrowed + 1)

----------------------------------------------------------------------------
(* The store and its file *)

Default == [books |-> <<>>, members |-> <<>>]

NoFile == [kind |-> "absent"]
EmptyText == [kind |-> "empty"]
Garbage == [kind |-> "garbage"]

(* json.dump(data, f, indent=4, default=str) / json.dumps(data, ...) *)
Dump(data) == [kind |-> "json", books |-> data.books, members |-> data.members]

(* a save that writes the books and forgets the members *)
SaveBooksOnly(data) == Dump([data EXCEPT !.members = <<>>])

(* Library.save_data / save_data(data): the file after the call, which     *)
(* opens it for writing and so replaces all it held                        *)
save_data(data) == Dump(data)

(* json.loads(content): defined on a JSON text, raises on anything else *)
Parses(content) == content.kind = "json"
Loads(content) == [books |-> content.books, members |-> content.members]

(* [x for x in seq if x['id'] == id][0], as a position; 0 when the list is empty *)
FirstWithId(seq, id) ==
    IF \E i \in 1 .. Len(seq) : seq[i].id = id
    THEN CHOOSE i \in 1 .. Len(seq) :
            /\ seq[i].id = id
            /\ \A j \in 1 .. (i - 1) : seq[j].id # id
    ELSE 0

(* list.pop(i) with python's index i (negative counts from the end):     *)
(* whether it finds an element, which one, and the list it leaves         *)
PopValid(s, i) == -Len(s) <= i /\ i < Len(s)
PopPos(s, i) == IF i < 0 THEN Len(s) + i + 1 ELSE i + 1

(* list.pop() without its index: the last element goes *)
PopLast(s, i) == SubSeq(s, 1, Len(s) - 1)

PopAt(s, i) ==
    [j \in 1 .. (Len(s) - 1) |-> IF j < PopPos(s, i) THEN s[j] ELSE s[j + 1]]

(* m.pop(key) on a dict: the dict without the key *)
DictPop(m, key) == [k \in (DOMAIN m) \ {key} |-> m[k]]

(* stream.py load_data, lines 32-38: the per-member migration *)
NormalizeMember(m) ==
    LET m1 == IF "borowed" \in DOMAIN m /\ "borrowed" \notin DOMAIN m
              THEN DictPop(m, "borowed") @@ [borrowed |-> m.borowed]
              ELSE m
    IN  IF "borrowed" \notin DOMAIN m1
        THEN m1 @@ [borrowed |-> <<>>]
        ELSE m1

Normalize(data) ==
    [data EXCEPT !.members =
        [i \in 1 .. Len(data.members) |-> NormalizeMember(data.members[i])]]

(* stream.py load_data: the state it returns, and the file it leaves *)
load_data(f) ==
    IF f.kind = "absent"
    THEN [data |-> Normalize(Default), file |-> save_data(Default)]
    ELSE IF f.kind = "json"
         THEN [data |-> Normalize(Loads(f)), file |-> f]
         ELSE [data |-> Normalize(Default), file |-> f]

(* stream.py line 48: the global `data` of a script run that starts now *)
webData == load_data(file).data

(* main.py lines 10-21: the class body of Library *)
LibraryLoad(f) ==
    IF f.kind = "absent"
    THEN [data |-> Default, file |-> Dump(Default), result |-> "ok"]
    ELSE IF f.kind = "empty"
         THEN [data |-> Default, file |-> f, result |-> "ok"]
         ELSE IF Parses(f)
              THEN [data |-> Loads(f), file |-> f, result |-> "ok"]
              ELSE [data |-> Default, file |-> f, result |-> "JSONDecodeError"]

----------------------------------------------------------------------------
(* Console operations (main.py): the state after the call, what it         *)
(* reported, and whether it reached Library.save_data()                    *)

Crashes == {"ValueError", "KeyError", "UnboundLocalError", "JSONDecodeError"}

Out(data, result, saved) == [data |-> data, result |-> result, saved |-> saved]

NewBook(id, copies) ==
    [id |-> id, total_copies |-> copies, available_copies |-> copies]

(* Library.add_book *)
ConAddBook(data, numeric, copies, id) ==
    IF ~numeric
    THEN Out(data, "ValueError", FALSE)
    ELSE Out([data EXCEPT !.books = Append(@, NewBook(id, copies))], "ok", TRUE)

(* Library.add_member *)
ConAddMember(data, id) ==
    Out([data EXCEPT !.members = Append(@, [id |-> id, borowed |-> <<>>])],
        "ok", TRUE)

(* Library.list_members *)
ConListMembers(data) ==
    IF \E i \in 1 .. Len(data.members) : "borowed" \notin DOMAIN data.members[i]
    THEN Out(data, "KeyError", FALSE)
    ELSE Out(data, "ok", FALSE)

(* Library.borrow *)
ConBorrow(data, member_id, book_id) ==
    LET mi == FirstWithId(data.members, member_id)
        bi == FirstWithId(data.books, book_id)
    IN  IF mi = 0 THEN Out(data, "NotFoundMember", FALSE)
        ELSE IF bi = 0 THEN Out(data, "NotFoundBook", FALSE)
        ELSE IF data.books[bi].available_copies <= 0
             THEN Out(data, "OutOfStock", FALSE)
        ELSE IF "borowed" \notin DOMAIN data.members[mi]
             THEN Out(data, "KeyError", FALSE)
        ELSE Out([data EXCEPT
                    !.members[mi].borowed = Append(@, [book_id |-> book_id]),
                    !.books[bi].available_copies = @ - 1],
                 "ok", TRUE)

(* Library.return_book, lines 144-146: give the copy back *)
GiveBack(books, book_id) ==
    LET bi == FirstWithId(books, book_id)
    IN  IF bi = 0 THEN books
        ELSE [books EXCEPT ![bi].available_copies = @ + 1]

(* Library.return_book *)
ConReturn(data, member_id, numeric, choice) ==
    LET mi == FirstWithId(data.members, member_id)
    IN  IF mi = 0 THEN Out(data, "NotFoundMember", FALSE)
        ELSE IF "borowed" \notin DOMAIN data.members[mi]
             THEN Out(data, "KeyError", FALSE)
        ELSE IF data.members[mi].borowed = <<>>
             THEN Out(data, "NothingToReturn", FALSE)
        ELSE IF ~numeric \/ ~PopValid(data.members[mi].borowed, choice - 1)
             \* the except clause prints "invalid value" and falls through
             \* to line 144, where `selected` was never bound
             THEN Out(data, "UnboundLocalError", FALSE)
        ELSE LET lst == data.members[mi].borowed
                 selected == lst[PopPos(lst, choice - 1)]
             IN  Out([data EXCEPT
                        !.members[mi].borowed = PopAt(lst, choice - 1),
                        !.books = GiveBack(@, selected.book_id)],
                     "ok", TRUE)

----------------------------------------------------------------------------
(* Web operations (stream.py): the state the handler saves *)

(* "Add Book" form *)
WebAddBookData(data, copies, id) ==
    [data EXCEPT !.books = Append(@, NewBook(id, copies))]

(* "Add Member" form *)
WebAddMemberData(data, id) ==
    [data EXCEPT !.members = Append(@, [id |-> id, borrowed |-> <<>>])]

(* line 206: the books the "Select book" box offers, as positions *)
AvailableBooks(data) ==
    {i \in 1 .. Len(data.books) : data.books[i].available_copies > 0}

Max(a, b) == IF a >= b THEN a ELSE b

(* "Borrow" button, lines 212-224: mopt and bopt are the positions of the  *)
(* options picked; the handler keeps only their ids and looks them up again*)
WebBorrowData(data, mopt, bopt) ==
    LET mid == data.members[mopt].id
        bid == data.books[bopt].id
        mi == FirstWithId(data.members, mid)
        bi == FirstWithId(data.books, bid)
    IN  [data EXCEPT
            !.members[mi].borrowed = Append(@, [book_id |-> bid]),
            !.books[bi].available_copies = Max(0, @ - 1)]

(* "Return" button, lines 244-251: choice is the number the option starts  *)
(* with, so that 0 <= idx < len(borrowed) and line 255 is never reached     *)
WebReturnData(data, mopt, choice) ==
    LET mid == data.members[mopt].id
        mi == FirstWithId(data.members, mid)
        lst == data.members[mi].borrowed
        idx == choice - 1
    IN  [data EXCEPT
            !.members[mi].borrowed = PopAt(lst, idx),
            !.books = GiveBack(@, lst[idx + 1].book_id)]

----------------------------------------------------------------------------
(* The state machine *)

(* the loans a member record holds, under either spelling of the key *)
LoansOf(m) ==
    (IF "borowed" \in DOMAIN m THEN m.borowed ELSE <<>>)
        \o (IF "borrowed" \in DOMAIN m THEN m.borrowed ELSE <<>>)

RECURSIVE LoanCount(_)
LoanCount(members) ==
    IF members = <<>> THEN 0
    ELSE Len(LoansOf(Head(members))) + LoanCount(Tail(members))

(* the Borrow Records the file holds, 0 when it holds no store *)
LoansInFile(f) == IF Parses(f) THEN LoanCount(Loads(f).members) ELSE 0

(* a call of save_data: who made it, in which operation, on which inputs, *)
(* and how many Borrow Records the file it replaced was holding           *)
Saved(proc, op, a, b, over) ==
    [proc |-> proc, op |-> op, a |-> a, b |-> b, over |-> over]
NoSave == Saved("none", "none", 0, 0, 0)

Init ==
    /\ file = NoFile
    /\ conPc = "off"
    /\ conData = Default
    /\ lastSave = NoSave
    /\ prevSave = NoSave
    /\ nSaves = 0

(* python main.py: the class body loads, then the menu loop starts *)
ConsoleStart ==
    /\ conPc \in {"off", "crashed"}
    /\ LET ld == LibraryLoad(file)
       IN  /\ conData' = ld.data
           /\ file' = ld.file
           /\ conPc' = IF ld.result = "ok" THEN "menu" ELSE "crashed"
    /\ UNCHANGED <<lastSave, prevSave, nSaves>>

(* one pass of the menu loop that calls `out` *)
ConsoleDoes(op, a, b, out) ==
    /\ out.saved => nSaves < MaxSaves
    /\ nSaves' = IF out.saved THEN nSaves + 1 ELSE nSaves
    /\ conData' = out.data
    /\ file' = IF out.saved THEN save_data(out.data) ELSE file
    /\ conPc' = IF out.result \in Crashes THEN "crashed" ELSE "menu"
    /\ lastSave' = IF out.saved
                   THEN Saved("console", op, a, b, LoansInFile(file))
                   ELSE lastSave
    /\ prevSave' = IF out.saved THEN lastSave ELSE prevSave

ConsoleAddBook ==
    /\ conPc = "menu"
    /\ \E numeric \in BOOLEAN, copies \in TypedCopies, id \in GenIds :
          /\ numeric => Len(conData.books) < MaxBooks
          /\ ~numeric => copies = 0
          /\ ConsoleDoes("add_book", copies, id,
                         ConAddBook(conData, numeric, copies, id))

ConsoleAddMember ==
    /\ conPc = "menu"
    /\ Len(conData.members) < MaxMembers
    /\ \E id \in GenIds :
          ConsoleDoes("add_member", id, 0, ConAddMember(conData, id))

ConsoleListMembers ==
    /\ conPc = "menu"
    /\ ConsoleDoes("list_members", 0, 0, ConListMembers(conData))

(* menu choice "5" with the two ids typed *)
ConsoleBorrowOf(member_id, book_id) ==
    /\ conPc = "menu"
    /\ ConsoleDoes("borrow", member_id, book_id,
                   ConBorrow(conData, member_id, book_id))

ConsoleBorrow ==
    \E member_id \in TypedIds, book_id \in TypedIds :
       /\ ConBorrow(conData, member_id, book_id).saved =>
             Len(conData.members[FirstWithId(conData.members, member_id)].borowed)
                < MaxBorrowed
       /\ ConsoleBorrowOf(member_id, book_id)

(* menu choice "6" with the id and the number typed *)
ConsoleReturnOf(member_id, numeric, choice) ==
    /\ conPc = "menu"
    /\ ConsoleDoes("return", member_id, choice,
                   ConReturn(conData, member_id, numeric, choice))

ConsoleReturn ==
    \E member_id \in TypedIds, numeric \in BOOLEAN, choice \in TypedChoices :
       /\ ~numeric => choice = 0
       /\ ConsoleReturnOf(member_id, numeric, choice)

(* choice "0": exit(0) *)
ConsoleExit ==
    /\ conPc = "menu"
    /\ conPc' = "off"
    /\ conData' = Default
    /\ UNCHANGED <<file, lastSave, prevSave, nSaves>>

(* a script run in which no button was pressed: data = load_data() *)
WebRun ==
    /\ file' = load_data(file).file
    /\ UNCHANGED <<conPc, conData, lastSave, prevSave, nSaves>>

(* a script run in which a button was pressed: the handler has changed    *)
(* the `data` loaded at line 48 into `data`, calls save_data(data), and    *)
(* st.experimental_rerun() starts the next script run                      *)
WebDoes(op, a, b, data) ==
    /\ nSaves < MaxSaves
    /\ nSaves' = nSaves + 1
    /\ file' = save_data(data)
    /\ lastSave' = Saved("web", op, a, b, LoansInFile(file))
    /\ prevSave' = lastSave
    /\ UNCHANGED <<conPc, conData>>

WebAddBook ==
    /\ Len(webData.books) < MaxBooks
    /\ \E copies \in FormCopies, id \in GenIds :
          WebDoes("add_book", copies, id, WebAddBookData(webData, copies, id))

WebAddMember ==
    /\ Len(webData.members) < MaxMembers
    /\ \E id \in GenIds :
          WebDoes("add_member", id, 0, WebAddMemberData(webData, id))

(* the "Borrow" button with the options at positions mopt and bopt picked *)
WebBorrowOf(mopt, bopt) ==
    /\ webData.members # <<>>
    /\ webData.books # <<>>
    /\ mopt \in 1 .. Len(webData.members)
    /\ bopt \in AvailableBooks(webData)
    /\ WebDoes("borrow", webData.members[mopt].id, webData.books[bopt].id,
               WebBorrowData(webData, mopt, bopt))

WebBorrow ==
    \E mopt \in 1 .. MaxMembers, bopt \in 1 .. MaxBooks :
       /\ mopt <= Len(webData.members) =>
             Len(webData.members[FirstWithId(webData.members,
                                             webData.members[mopt].id)].borrowed)
                < MaxBorrowed
       /\ WebBorrowOf(mopt, bopt)

(* the "Return" button with member option mopt and loan option `choice`;  *)
(* the select box offers the numbers 1 .. len(borrowed) and nothing else  *)
WebReturnOf(mopt, choice) ==
    /\ mopt \in 1 .. Len(webData.members)
    /\ LET mi == FirstWithId(webData.members, webData.members[mopt].id)
       IN  /\ choice \in 1 .. Len(webData.members[mi].borrowed)
           /\ WebDoes("return", webData.members[mopt].id, choice,
                      WebReturnData(webData, mopt, choice))

WebReturn ==
    \E mopt \in 1 .. MaxMembers, choice \in 1 .. MaxBorrowed :
       WebReturnOf(mopt, choice)

Next ==
    \/ ConsoleStart
    \/ ConsoleAddBook
    \/ ConsoleAddMember
    \/ ConsoleListMembers
    \/ ConsoleBorrow
    \/ ConsoleReturn
    \/ ConsoleExit
    \/ WebRun
    \/ WebAddBook
    \/ WebAddMember
    \/ WebBorrow
    \/ WebReturn

Spec == Init /\ [][Next]_vars

----------------------------------------------------------------------------
(* A second start: library.json as two earlier saves left it, or as        *)
(* something else left it (an empty or a damaged file).                    *)

TwoLoans == <<[book_id |-> 1], [book_id |-> 2]>>
LentBooks == <<[id |-> 1, total_copies |-> 1, available_copies |-> 0],
               [id |-> 2, total_copies |-> 1, available_copies |-> 0]>>

(* written by main.py: two books, one member holding a copy of each *)
ConsoleFile ==
    Dump([books |-> LentBooks,
          members |-> <<[id |-> 1, borowed |-> TwoLoans]>>])

(* the same store written by stream.py *)
WebFile ==
    Dump([books |-> LentBooks,
          members |-> <<[id |-> 1, borrowed |-> TwoLoans]>>])

StoredFiles == {ConsoleFile, WebFile, EmptyText, Garbage}

InitLoad ==
    /\ file \in StoredFiles
    /\ conPc = "off"
    /\ conData = Default
    /\ lastSave = NoSave
    /\ prevSave = NoSave
    /\ nSaves = 2

SpecLoad == InitLoad /\ [][Next]_vars

----------------------------------------------------------------------------
(* What the properties talk about *)

RECURSIVE CopiesOut(_)
CopiesOut(books) ==
    IF books = <<>> THEN 0
    ELSE (Head(books).total_copies - Head(books).available_copies)
            + CopiesOut(Tail(books))

Conserved(data) == CopiesOut(data.books) = LoanCount(data.members)

WithinBounds(data) ==
    \A i \in 1 .. Len(data.books) :
        /\ 0 <= data.books[i].available_copies
        /\ data.books[i].available_copies <= data.books[i].total_copies

UniqueIds(data) ==
    /\ \A i, j \in 1 .. Len(data.books) :
          data.books[i].id = data.books[j].id => i = j
    /\ \A i, j \in 1 .. Len(data.members) :
          data.members[i].id = data.members[j].id => i = j

(* every state a front end holds or has written *)
EveryStore(P(_)) ==
    /\ P(conData)
    /\ P(webData)
    /\ Parses(file) => P(Loads(file))

(* the in-memory state of the process that saved last *)
DataOf(proc, con, web) == IF proc = "console" THEN con ELSE web

----------------------------------------------------------------------------
(* C1: the copies out of the shelves (total_copies - available_copies,     *)
(* summed over the books) are as many as the Borrow Records of all         *)
(* members, in the memory of both front ends and in every file written.    *)
C1_Conservation == EveryStore(Conserved)

(* C2: every book has 0 <= available_copies <= total_copies, in the memory *)
(* of both front ends and in every file written.                           *)
C2_CopiesWithinBounds == EveryStore(WithinBounds)

(* borrow(member_id, book_id) is to fail: unknown member, unknown book, or *)
(* no copy of the book available                                           *)
BorrowMustFail(data, member_id, book_id) ==
    \/ FirstWithId(data.members, member_id) = 0
    \/ FirstWithId(data.books, book_id) = 0
    \/ data.books[FirstWithId(data.books, book_id)].available_copies <= 0

(* C3: a borrow whose member id or book id is unknown, or whose book has   *)
(* no copy available, changes nothing: not the books, not the members'     *)
(* lists, not the file. With N copies the (N+1)-th borrow is such a call.  *)
C3_FailedBorrowChangesNothing ==
    [][ /\ \A member_id \in TypedIds, book_id \in TypedIds :
              (BorrowMustFail(conData, member_id, book_id)
                 /\ ConsoleBorrowOf(member_id, book_id))
              => UNCHANGED <<conData, file>>
        /\ \A mopt \in 1 .. Len(webData.members), bopt \in 1 .. Len(webData.books) :
              (BorrowMustFail(webData, webData.members[mopt].id,
                              webData.books[bopt].id)
                 /\ WebBorrowOf(mopt, bopt))
              => UNCHANGED <<webData, file>>
      ]_vars

(* C4: a return whose number is outside 1 .. len(borrowed), on a member    *)
(* who holds loans, removes no Borrow Record, changes no book and saves    *)
(* nothing.                                                                *)
C4_BadSelectionChangesNothing ==
    [][ \A member_id \in TypedIds, choice \in TypedChoices :
           LET mi == FirstWithId(conData.members, member_id)
           IN  (/\ mi # 0
                /\ LoansOf(conData.members[mi]) # <<>>
                /\ (choice < 1 \/ choice > Len(LoansOf(conData.members[mi])))
                /\ ConsoleReturnOf(member_id, TRUE, choice))
               => UNCHANGED <<conData, file>>
      ]_vars

(* C5: a return that went through with 1 <= k <= len(borrowed) removed the *)
(* k-th Borrow Record of the member and no other, gave one copy back to    *)
(* the first book with the record's book_id, and touched no other member   *)
(* and no other book.                                                      *)
C5_ReturnRemovesKth ==
    [][ (nSaves' = nSaves + 1 /\ lastSave'.op = "return") =>
            LET old == DataOf(lastSave'.proc, conData, webData)
                new == DataOf(lastSave'.proc, conData', webData')
                mi == FirstWithId(old.members, lastSave'.a)
                k == lastSave'.b
                lst == LoansOf(old.members[mi])
                bi == FirstWithId(old.books, lst[k].book_id)
            IN  (1 <= k /\ k <= Len(lst)) =>
                  /\ Len(new.members) = Len(old.members)
                  /\ Len(new.books) = Len(old.books)
                  /\ LoansOf(new.members[mi])
                        = SubSeq(lst, 1, k - 1) \o SubSeq(lst, k + 1, Len(lst))
                  /\ \A i \in 1 .. Len(old.members) :
                        i # mi => new.members[i] = old.members[i]
                  /\ \A i \in 1 .. Len(old.books) :
                        /\ new.books[i].id = old.books[i].id
                        /\ new.books[i].total_copies = old.books[i].total_copies
                        /\ new.books[i].available_copies =
                              old.books[i].available_copies
                                 + (IF i = bi THEN 1 ELSE 0)
      ]_vars

(* the first of two loans was returned at the console: the second loan is  *)
(* what is left, and book 1 has its copy back                              *)
C5_Witness ==
    /\ lastSave.proc = "console"
    /\ lastSave.op = "return"
    /\ lastSave.a = 1
    /\ lastSave.b = 1
    /\ conPc = "menu"
    /\ Len(conData.members) = 1
    /\ LoansOf(conData.members[1]) = <<[book_id |-> 2]>>
    /\ conData.books[1].available_copies = 1
    /\ conData.books[2].available_copies = 0

(* C6: no operation of the console ends the process: from the menu, the    *)
(* console is at the menu again, or has left through the exit command.     *)
C6_NoErrorIsFatal == [][conPc = "menu" => conPc' \in {"menu", "off"}]_vars

(* C7: no two books share an id and no two members share an id.            *)
C7_UniqueIds == EveryStore(UniqueIds)

(* C8: every member a running front end holds has the list of loans under  *)
(* the key that front end's borrow and return read ("borowed" in main.py,  *)
(* "borrowed" in stream.py), whichever front end wrote the file.           *)
C8_LoadedMembersHaveLoans ==
    /\ conPc = "menu" =>
          \A i \in 1 .. Len(conData.members) :
              "borowed" \in DOMAIN conData.members[i]
    /\ \A i \in 1 .. Len(webData.members) :
          "borrowed" \in DOMAIN webData.members[i]

(* C9: a front end started on a file that cannot be parsed runs, with the  *)
(* empty store.                                                            *)
C9_LoadFailsSoft ==
    [][ /\ (conPc = "off" /\ file = Garbage /\ conPc' # "off")
              => (conPc' = "menu" /\ conData' = Default)
        /\ file = Garbage => webData = Default
      ]_vars

(* C10: a save replaces the whole file by the state of the process that    *)
(* saves: after it the file holds that state and nothing of what the other *)
(* process had written.                                                    *)
C10_LastWriteWins ==
    [][ nSaves' = nSaves + 1 =>
            LET mine == DataOf(lastSave'.proc, conData', webData')
            IN  /\ file'.kind = "json"
                /\ file'.books = mine.books
                /\ file'.members = mine.members
      ]_vars

(* the web front end saved a return, then the console process saved an    *)
(* add_book or add_member on the state it had loaded before: the file is   *)
(* the console's state, and the loan returned is in the file again         *)
C10_Witness ==
    /\ prevSave.proc = "web"
    /\ prevSave.op = "return"
    /\ lastSave.proc = "console"
    /\ lastSave.op \in {"add_book", "add_member"}
    /\ conPc = "menu"
    /\ file = Dump(conData)
    /\ lastSave.over < LoansInFile(file)

====
